---- MODULE Spec2Model ----
(***************************************************************************)
(* CPM scheduler (cpm_app.py, constraints.py): the script's pipeline from  *)
(* the edited table `data` to the summary line.                            *)
(*                                                                         *)
(* Text cells are sequences of one-character strings, so that strip,       *)
(* split and the regular expression of parse_logic_constraints are         *)
(* computed, not assumed.  A missing (NaN) cell is the value NaN.  The      *)
(* table has the columns of the DataFrame get_schedule falls back to,      *)
(* Activity Name excepted (display only).  A Timestamp is <<n>>, n the     *)
(* days since 1970-01-01, and NaT is <<>>; date cells are dd/mm/yyyy text  *)
(* or missing.                                                             *)
(***************************************************************************)
EXTENDS Integers, Sequences, FiniteSets, TLC

VARIABLES data, method, pc, i, graph, es, ef, ls, lf, project_duration,
          start_origin, results, summary

vars == <<data, method, pc, i, graph, es, ef, ls, lf, project_duration,
          start_origin, results, summary>>

(***************************************************************************)
(* Bounds of the explored inputs.                                          *)
(***************************************************************************)
MaxDur == 1
MaxLag == 1
MaxChain == 3

(***************************************************************************)
(* Generic helpers.                                                        *)
(***************************************************************************)
Max(S) == CHOOSE x \in S : \A y \in S : y <= x
Min(S) == CHOOSE x \in S : \A y \in S : x <= y
Range(s) == {s[k] : k \in DOMAIN s}
Empty == <<>>
Get(f, k, default) == IF k \in DOMAIN f THEN f[k] ELSE default
Put(f, k, v) == [x \in DOMAIN f \cup {k} |-> IF x = k THEN v ELSE f[x]]

(***************************************************************************)
(* Text: str.strip, str.split, int.                                        *)
(***************************************************************************)
NaN == <<"<NaN>">>
Letters == {"A", "B", "C", "D", "E", "F", "G", "H", "I", "J", "K", "L",
            "M", "N", "O", "P", "Q", "R", "S", "T", "U", "V", "W", "X",
            "Y", "Z", "a", "b", "c", "d", "e", "f", "g", "h", "i", "j",
            "k", "l", "m", "n", "o", "p", "q", "r", "s", "t", "u", "v",
            "w", "x", "y", "z"}
\* the decimal digits: the characters \d matches in a str pattern and int()
\* converts, one block per script, each block its zero to its nine.
\* The blocks start at U+0030, U+06F0, U+07C0, U+09E6, U+0AE6, U+0BE6,
\* U+0CE6, U+0DE6, U+0ED0, U+1090, U+17E0, U+19D0, U+1A80, U+1A90, U+1BB0,
\* U+A8D0, U+A9D0, U+A9F0, U+ABF0.  The decimal digits of the other scripts
\* (U+0660, U+0966 and so on), which \d matches as well, cannot be written in
\* a string here: cells are taken over the other characters.
DigitBlocks ==
    <<<<"0", "1", "2", "3", "4", "5", "6", "7", "8", "9">>,
      <<"۰", "۱", "۲", "۳", "۴", "۵", "۶", "۷", "۸", "۹">>,
      <<"߀", "߁", "߂", "߃", "߄", "߅", "߆", "߇", "߈", "߉">>,
      <<"০", "১", "২", "৩", "৪", "৫", "৬", "৭", "৮", "৯">>,
      <<"૦", "૧", "૨", "૩", "૪", "૫", "૬", "૭", "૮", "૯">>,
      <<"௦", "௧", "௨", "௩", "௪", "௫", "௬", "௭", "௮", "௯">>,
      <<"೦", "೧", "೨", "೩", "೪", "೫", "೬", "೭", "೮", "೯">>,
      <<"෦", "෧", "෨", "෩", "෪", "෫", "෬", "෭", "෮", "෯">>,
      <<"໐", "໑", "໒", "໓", "໔", "໕", "໖", "໗", "໘", "໙">>,
      <<"႐", "႑", "႒", "႓", "႔", "႕", "႖", "႗", "႘", "႙">>,
      <<"០", "១", "២", "៣", "៤", "៥", "៦", "៧", "៨", "៩">>,
      <<"᧐", "᧑", "᧒", "᧓", "᧔", "᧕", "᧖", "᧗", "᧘", "᧙">>,
      <<"᪀", "᪁", "᪂", "᪃", "᪄", "᪅", "᪆", "᪇", "᪈", "᪉">>,
      <<"᪐", "᪑", "᪒", "᪓", "᪔", "᪕", "᪖", "᪗", "᪘", "᪙">>,
      <<"᮰", "᮱", "᮲", "᮳", "᮴", "᮵", "᮶", "᮷", "᮸", "᮹">>,
      <<"꣐", "꣑", "꣒", "꣓", "꣔", "꣕", "꣖", "꣗", "꣘", "꣙">>,
      <<"꧐", "꧑", "꧒", "꧓", "꧔", "꧕", "꧖", "꧗", "꧘", "꧙">>,
      <<"꧰", "꧱", "꧲", "꧳", "꧴", "꧵", "꧶", "꧷", "꧸", "꧹">>,
      <<"꯰", "꯱", "꯲", "꯳", "꯴", "꯵", "꯶", "꯷", "꯸", "꯹">>>>
\* 0-9 of the class [A-Za-z0-9_]
AsciiDigits == Range(DigitBlocks[1])
Digits == UNION {Range(DigitBlocks[b]) : b \in 1..Len(DigitBlocks)}
\* the characters str.isspace holds for, which str.strip removes.  The
\* control characters and the non-ASCII spaces are written as themselves;
\* WhitespaceCodes lists them by code point in the same order.  The spaces
\* U+2000..U+200A, U+2028, U+2029, U+202F, U+205F and U+3000, which
\* str.strip removes as well, cannot be written in a string here: cells are
\* taken over the other characters.
WhitespaceChars ==
    <<"\t", "\n", "", "\f", "\r", "", "", "", "", " ", "", " ",
      " ">>
WhitespaceCodes == <<9, 10, 11, 12, 13, 28, 29, 30, 31, 32, 133, 160, 5760>>
Whitespace == Range(WhitespaceChars)
IsSpace(c) == c \in Whitespace
IsDigit(c) == c \in Digits
IsWord(c) == c \in Letters \cup AsciiDigits \cup {"_"}

RECURSIVE LStrip(_)
LStrip(s) ==
    IF s = <<>> THEN s
    ELSE IF IsSpace(Head(s)) THEN LStrip(Tail(s)) ELSE s

RECURSIVE RStrip(_)
RStrip(s) ==
    IF s = <<>> THEN s
    ELSE IF IsSpace(s[Len(s)]) THEN RStrip(SubSeq(s, 1, Len(s) - 1)) ELSE s

Strip(s) == RStrip(LStrip(s))

RECURSIVE Split(_, _)
Split(s, sep) ==
    LET hits == {k \in 1..Len(s) : s[k] = sep}
    IN  IF hits = {} THEN <<s>>
        ELSE LET k == Min(hits)
             IN  <<SubSeq(s, 1, k - 1)>> \o Split(SubSeq(s, k + 1, Len(s)), sep)

\* the value of a decimal digit: its place in the block of its script
DigitVal(c) ==
    LET b == CHOOSE x \in 1..Len(DigitBlocks) : c \in Range(DigitBlocks[x])
    IN  (CHOOSE k \in 1..10 : DigitBlocks[b][k] = c) - 1

RECURSIVE ToNat(_)
ToNat(ds) ==
    IF ds = <<>> THEN 0
    ELSE 10 * ToNat(SubSeq(ds, 1, Len(ds) - 1)) + DigitVal(ds[Len(ds)])

\* code points: the ASCII characters 32..95 and 97..126 in order, and the
\* characters of Whitespace
Ascii32 == <<" ", "!", "\"", "#", "$", "%", "&", "'", "(", ")", "*",
           "+", ",", "-", ".", "/", "0", "1", "2", "3", "4", "5", "6",
           "7", "8", "9", ":", ";", "<", "=", ">", "?", "@", "A", "B",
           "C", "D", "E", "F", "G", "H", "I", "J", "K", "L", "M", "N",
           "O", "P", "Q", "R", "S", "T", "U", "V", "W", "X", "Y", "Z",
           "[", "\\", "]", "^", "_">>
Ascii97 == <<"a", "b", "c", "d", "e", "f", "g", "h", "i", "j", "k", "l",
           "m", "n", "o", "p", "q", "r", "s", "t", "u", "v", "w", "x",
           "y", "z", "{", "|", "}", "~">>

CharCode(c) ==
    CASE c \in Whitespace ->
            WhitespaceCodes[CHOOSE k \in 1..Len(WhitespaceChars) :
                                WhitespaceChars[k] = c]
      [] c \in Range(Ascii97) ->
            96 + (CHOOSE k \in 1..Len(Ascii97) : Ascii97[k] = c)
      [] OTHER -> 31 + (CHOOSE k \in 1..Len(Ascii32) : Ascii32[k] = c)

\* a < b for two str values
RECURSIVE LexLess(_, _)
LexLess(a, b) ==
    IF b = <<>> THEN FALSE
    ELSE IF a = <<>> THEN TRUE
    ELSE IF Head(a) = Head(b) THEN LexLess(Tail(a), Tail(b))
    ELSE CharCode(Head(a)) < CharCode(Head(b))

\* min of a non-empty set of str values
StrMin(S) == CHOOSE x \in S : \A y \in S : x = y \/ LexLess(x, y)

\* int("+15") = 15, int("-2") = -2
ToInt(s) == IF Head(s) = "-" THEN 0 - ToNat(Tail(s)) ELSE ToNat(Tail(s))

(***************************************************************************)
(* constraints.py                                                          *)
(***************************************************************************)
\* length of the longest run of characters from position `from` on that
\* satisfy the class: what a greedy [..]+ or \d+ consumes
WordRun(s, from) ==
    LET stops == {k \in from..Len(s) : ~IsWord(s[k])}
    IN  IF stops = {} THEN Len(s) - from + 1 ELSE Min(stops) - from

DigitRun(s, from) ==
    LET stops == {k \in from..Len(s) : ~IsDigit(s[k])}
    IN  IF stops = {} THEN Len(s) - from + 1 ELSE Min(stops) - from

RelationCode(a, b) ==
    CASE a = "F" /\ b = "S" -> "FS"
      [] a = "S" /\ b = "S" -> "SS"
      [] a = "F" /\ b = "F" -> "FF"
      [] a = "S" /\ b = "F" -> "SF"
      [] OTHER -> "none"

\* re.match(r'([A-Za-z0-9_]+)\[(FS|SS|FF|SF)([+-]\d+)?\]', part): anchored
\* at the start only; the result is <<relation>> or <<>> for no match
Match(part) ==
    LET n == Len(part)
        w == WordRun(part, 1)
        at(k) == IF k <= n THEN part[k] ELSE "<end>"
        rel == RelationCode(at(w + 2), at(w + 3))
        d == DigitRun(part, w + 5)
    IN  IF w = 0 \/ at(w + 1) # "[" \/ rel = "none" THEN <<>>
        ELSE IF at(w + 4) = "]"
             THEN <<[predecessor |-> SubSeq(part, 1, w), type |-> rel,
                     lag |-> 0]>>
        ELSE IF at(w + 4) \in {"+", "-"} /\ d >= 1 /\ at(w + 5 + d) = "]"
             THEN <<[predecessor |-> SubSeq(part, 1, w), type |-> rel,
                     lag |-> ToInt(SubSeq(part, w + 4, w + 4 + d))]>>
        ELSE <<>>

RECURSIVE MatchAll(_)
MatchAll(parts) ==
    IF parts = <<>> THEN <<>>
    ELSE Match(Strip(Head(parts))) \o MatchAll(Tail(parts))

parse_logic_constraints(constraints_str) ==
    IF constraints_str = NaN \/ Strip(constraints_str) = <<>> THEN <<>>
    ELSE MatchAll(Split(constraints_str, ";"))

(***************************************************************************)
(* networkx.DiGraph as the script uses it: a node set, the `duration`      *)
(* attribute of the nodes that add_node declared, and one attribute record *)
(* per ordered pair (u, v).  add_edge creates missing endpoints without    *)
(* attributes and overwrites the attributes of an existing pair.           *)
(***************************************************************************)
EmptyGraph == [nodes |-> {}, duration |-> Empty, edges |-> Empty]

add_node(G, n, d) ==
    [G EXCEPT !.nodes = @ \cup {n}, !.duration = Put(@, n, d)]

add_edge(G, u, v, t, l) ==
    [G EXCEPT !.nodes = @ \cup {u, v},
              !.edges = Put(@, <<u, v>>, [type |-> t, lag |-> l])]

predecessors(G, n) == {u \in G.nodes : <<u, n>> \in DOMAIN G.edges}
successors(G, n) == {v \in G.nodes : <<n, v>> \in DOMAIN G.edges}

\* graph.nodes[node].get('duration', 0)
Duration(G, n) == Get(G.duration, n, 0)

\* nodes reachable from n along one or more edges
RECURSIVE ReachFrom(_, _, _)
ReachFrom(G, frontier, seen) ==
    LET next == UNION {successors(G, u) : u \in frontier} \ seen
    IN  IF next = {} THEN seen ELSE ReachFrom(G, next, seen \cup next)

Descendants(G, n) == ReachFrom(G, {n}, {})

\* variant: only cycles through two or more nodes are looked for
find_cycle_NoSelfLoop(G) ==
    \E n \in G.nodes : \E m \in G.nodes \ {n} :
        m \in Descendants(G, n) /\ n \in Descendants(G, m)

\* nx.find_cycle(graph, orientation='original') returns a cycle when some
\* node reaches itself (a self-loop included) and raises NetworkXNoCycle
\* otherwise
find_cycle(G) == \E n \in G.nodes : n \in Descendants(G, n)

(***************************************************************************)
(* cpm_app.py, graph construction: the body of the loop over data.         *)
(***************************************************************************)
RECURSIVE NonEmptyStripped(_)
NonEmptyStripped(parts) ==
    IF parts = <<>> THEN <<>>
    ELSE (IF Strip(Head(parts)) # <<>> THEN <<Strip(Head(parts))>> ELSE <<>>)
         \o NonEmptyStripped(Tail(parts))

RECURSIVE AddBareEdges(_, _, _)
AddBareEdges(G, preds, aid) ==
    IF preds = <<>> THEN G
    ELSE AddBareEdges(add_edge(G, Head(preds), aid, "FS", 0), Tail(preds), aid)

RECURSIVE AddConstraintEdges(_, _, _)
AddConstraintEdges(G, cs, aid) ==
    IF cs = <<>> THEN G
    ELSE AddConstraintEdges(
             add_edge(G, Head(cs).predecessor, aid, Head(cs).type, Head(cs).lag),
             Tail(cs), aid)

HasPredecessors(row) == row.Predecessors # NaN /\ row.Predecessors # <<>>

\* variant: parsed constraints are applied whatever the Predecessors cell
BuildOne_ConstraintsFirst(G, row) ==
    LET aid == Strip(row.ActivityID)
        G1 == add_node(G, aid, row.Duration)
        constraints == parse_logic_constraints(row.Constraint)
        preds == NonEmptyStripped(Split(row.Predecessors, ","))
    IN  IF aid = <<>> THEN G
        ELSE IF constraints # <<>> THEN AddConstraintEdges(G1, constraints, aid)
        ELSE IF ~HasPredecessors(row) THEN G1
        ELSE AddBareEdges(G1, preds, aid)

BuildOne(G, row) ==
    LET aid == Strip(row.ActivityID)
        G1 == add_node(G, aid, row.Duration)
        constraints == parse_logic_constraints(row.Constraint)
        preds == NonEmptyStripped(Split(row.Predecessors, ","))
    IN  IF aid = <<>> THEN G
        ELSE IF ~HasPredecessors(row) THEN G1
        ELSE IF constraints = <<>> THEN AddBareEdges(G1, preds, aid)
        ELSE AddConstraintEdges(G1, constraints, aid)

(***************************************************************************)
(* cpm_app.py, forward and backward pass: the body of the loop for one     *)
(* node.                                                                   *)
(***************************************************************************)
\* variant: FS reads the predecessor's start instead of its finish
ForwardCandidate_FSFromStart(G, n, p, esm, efm) ==
    LET edge == G.edges[<<p, n>>]
        pred_es == Get(esm, p, 0)
        pred_ef == Get(efm, p, 0)
        duration == Duration(G, n)
    IN  CASE edge.type = "FS" -> pred_es + edge.lag
          [] edge.type = "SS" -> pred_es + edge.lag
          [] edge.type = "FF" -> (pred_ef + edge.lag) - duration
          [] edge.type = "SF" -> (pred_es + edge.lag) - duration

\* variant: FF forgets to convert the finish candidate into a start
ForwardCandidate_FFNoDuration(G, n, p, esm, efm) ==
    LET edge == G.edges[<<p, n>>]
        pred_es == Get(esm, p, 0)
        pred_ef == Get(efm, p, 0)
        duration == Duration(G, n)
    IN  CASE edge.type = "FS" -> pred_ef + edge.lag
          [] edge.type = "SS" -> pred_es + edge.lag
          [] edge.type = "FF" -> pred_ef + edge.lag
          [] edge.type = "SF" -> (pred_es + edge.lag) - duration

ForwardCandidate(G, n, p, esm, efm) ==
    LET edge == G.edges[<<p, n>>]
        pred_es == Get(esm, p, 0)
        pred_ef == Get(efm, p, 0)
        duration == Duration(G, n)
    IN  CASE edge.type = "FS" -> pred_ef + edge.lag
          [] edge.type = "SS" -> pred_es + edge.lag
          [] edge.type = "FF" -> (pred_ef + edge.lag) - duration
          [] edge.type = "SF" -> (pred_es + edge.lag) - duration

ForwardES(G, n, esm, efm) ==
    Max({0} \cup {ForwardCandidate(G, n, p, esm, efm) : p \in predecessors(G, n)})

\* variant: SF reads the successor's latest finish
BackwardCandidate_SFFromLF(G, n, s, esm, lsm, lfm) ==
    LET edge == G.edges[<<n, s>>]
    IN  CASE edge.type = "FS" -> lsm[s] - edge.lag
          [] edge.type = "SS" -> lsm[s] - edge.lag
          [] edge.type = "FF" -> lfm[s] - edge.lag
          [] edge.type = "SF" -> lfm[s] - edge.lag

BackwardCandidate(G, n, s, esm, lsm, lfm) ==
    LET edge == G.edges[<<n, s>>]
    IN  CASE edge.type = "FS" -> lsm[s] - edge.lag
          [] edge.type = "SS" -> lsm[s] - edge.lag
          [] edge.type = "FF" -> lfm[s] - edge.lag
          [] edge.type = "SF" -> esm[s] - edge.lag

BackwardLF(G, n, P, esm, lsm, lfm) ==
    Min({P} \cup {BackwardCandidate(G, n, s, esm, lsm, lfm) : s \in successors(G, n)})

\* ef[node] = es[node] + duration
EarlyFinish(G, n, e) == e + Duration(G, n)

\* variant: the latest start is taken to be the latest finish
LateStart_NoDuration(G, n, l) == l

\* ls[node] = lf[node] - duration
LateStart(G, n, l) == l - Duration(G, n)

\* variant: the nodes are visited in an order that ignores the edges
ForwardReady_AnyOrder(G, n, done) == TRUE

\* nx.topological_sort yields a node only after all its predecessors; the
\* tie-break among the nodes that are ready is the library's
ForwardReady(G, n, done) == predecessors(G, n) \subseteq done
\* reversed(list(nx.topological_sort(graph)))
BackwardReady(G, n, done) == successors(G, n) \subseteq done

\* max(ef, key=ef.get), ef[end_node]
ProjectEnd(efm) == IF DOMAIN efm = {} THEN 0 ELSE Max({efm[n] : n \in DOMAIN efm})

(***************************************************************************)
(* cpm_app.py, result rows and summary.                                    *)
(***************************************************************************)
NaT == <<>>
Methods == {"Use CSV Start/End Dates", "Calculate by CPM Logic"}

\* days from 1970-01-01 to the day d of month m of year y
DaysFromCivil(y, m, d) ==
    LET yy == IF m <= 2 THEN y - 1 ELSE y
        era == yy \div 400
        yoe == yy - era * 400
        mp == IF m > 2 THEN m - 3 ELSE m + 9
        doy == (153 * mp + 2) \div 5 + d - 1
        doe == yoe * 365 + yoe \div 4 - yoe \div 100 + doy
    IN  era * 146097 + doe - 719468

\* pd.to_datetime(cell, dayfirst=True) of a dd/mm/yyyy cell or a missing one
to_datetime(cell) ==
    IF cell = NaN THEN NaT
    ELSE LET parts == Split(cell, "/")
         IN  <<DaysFromCivil(ToNat(parts[3]), ToNat(parts[2]), ToNat(parts[1]))>>

\* Timestamp + pd.to_timedelta(n, unit='D')
AddDays(ts, n) == IF ts = NaT THEN NaT ELSE <<ts[1] + n>>

\* data.loc[data['Predecessors'] == "", 'Start Date']: the Start Date cells
\* of the rows whose Predecessors cell is the empty string
OriginCells(rows) ==
    {rows[k].StartDate : k \in {j \in 1..Len(rows) : rows[j].Predecessors = <<>>}}

\* the selection holds a text and a missing cell.  Series.min() on such a
\* selection depends on the installed pandas: on an object column the missing
\* cell is replaced by +inf before the comparison, which raises TypeError
\* ('<=' between str and float); on a str column the missing cell is skipped
MixedOrigin(rows) == NaN \in OriginCells(rows) /\ OriginCells(rows) # {NaN}

\* pd.to_datetime(<selection>.min(), dayfirst=True) when min() returns: the
\* smallest Start Date text of the selection, missing cells skipped; NaT
\* when the selection has no text
StartOrigin(rows) ==
    LET cells == OriginCells(rows) \ {NaN}
    IN  IF cells = {} THEN NaT ELSE to_datetime(StrMin(cells))

ResultRow(G, row, aid, meth, origin, esm, efm, lsm) ==
    LET tf == lsm[aid] - esm[aid]
        csv == /\ meth = "Use CSV Start/End Dates"
               /\ row.StartDate # NaN
               /\ row.EndDate # NaN
    IN  [ID |-> aid, Duration |-> Duration(G, aid),
         Start |-> IF csv THEN to_datetime(row.StartDate)
                   ELSE AddDays(origin, esm[aid]),
         End |-> IF csv THEN to_datetime(row.EndDate)
                 ELSE AddDays(origin, efm[aid]),
         Float |-> tf, Critical |-> (tf = 0)]

\* the body of the loop over data that compiles the results
CompileOne(res, G, row, meth, origin, esm, efm, lsm) ==
    LET aid == Strip(row.ActivityID)
    IN  IF aid \notin DOMAIN esm \/ aid \notin DOMAIN lsm THEN res
        ELSE Append(res, ResultRow(G, row, aid, meth, origin, esm, efm, lsm))

RECURSIVE CriticalIDs(_)
CriticalIDs(rows) ==
    IF rows = <<>> THEN <<>>
    ELSE (IF Head(rows).Critical THEN <<Head(rows).ID>> ELSE <<>>)
         \o CriticalIDs(Tail(rows))

(***************************************************************************)
(* The pipeline.                                                           *)
(***************************************************************************)
BuildRow ==
    /\ pc = "build"
    /\ i <= Len(data)
    /\ graph' = BuildOne(graph, data[i])
    /\ i' = i + 1
    /\ UNCHANGED <<data, method, start_origin,
                   pc, es, ef, ls, lf, project_duration, results, summary>>

CycleCheck ==
    /\ pc = "build"
    /\ i > Len(data)
    /\ pc' = IF find_cycle(graph) THEN "stopped" ELSE "forward"
    /\ UNCHANGED <<data, method, start_origin,
                   i, graph, es, ef, ls, lf, project_duration, results,
                   summary>>

ForwardStep ==
    /\ pc = "forward"
    /\ \E node \in graph.nodes \ DOMAIN es :
          /\ ForwardReady(graph, node, DOMAIN es)
          /\ LET e == ForwardES(graph, node, es, ef)
             IN  /\ es' = Put(es, node, e)
                 /\ ef' = Put(ef, node, EarlyFinish(graph, node, e))
    /\ UNCHANGED <<data, method, start_origin,
                   pc, i, graph, ls, lf, project_duration, results,
                   summary>>

ProjectDuration ==
    /\ pc = "forward"
    /\ DOMAIN es = graph.nodes
    /\ project_duration' = ProjectEnd(ef)
    /\ pc' = IF graph.nodes = {} THEN "origin" ELSE "backward"
    /\ UNCHANGED <<data, method, start_origin,
                   i, graph, es, ef, ls, lf, results, summary>>

BackwardStep ==
    /\ pc = "backward"
    /\ \E node \in graph.nodes \ DOMAIN ls :
          /\ BackwardReady(graph, node, DOMAIN ls)
          /\ LET l == BackwardLF(graph, node, project_duration, es, ls, lf)
             IN  /\ lf' = Put(lf, node, l)
                 /\ ls' = Put(ls, node, LateStart(graph, node, l))
                 /\ pc' = IF DOMAIN ls \cup {node} = graph.nodes
                          THEN "origin" ELSE "backward"
    /\ UNCHANGED <<data, method, start_origin,
                   i, graph, es, ef, project_duration, results, summary>>

ResultsStart ==
    /\ pc = "origin"
    /\ start_origin' = StartOrigin(data)
    /\ pc' = "compile"
    /\ i' = 1
    /\ UNCHANGED <<data, method, graph, es, ef, ls, lf, project_duration,
                   results, summary>>

\* line 148 raising TypeError on a mixed selection: the script ends there
StartOriginRaises ==
    /\ pc = "origin"
    /\ MixedOrigin(data)
    /\ pc' = "raised"
    /\ UNCHANGED <<data, method, start_origin, i, graph, es, ef, ls, lf,
                   project_duration, results, summary>>

CompileRow ==
    /\ pc = "compile"
    /\ i <= Len(data)
    /\ results' = CompileOne(results, graph, data[i], method, start_origin,
                             es, ef, ls)
    /\ i' = i + 1
    /\ UNCHANGED <<data, method, start_origin,
                   pc, graph, es, ef, ls, lf, project_duration, summary>>

Summary ==
    /\ pc = "compile"
    /\ i > Len(data)
    /\ summary' = IF results = <<>> THEN <<>>
                  ELSE <<[critical_path |-> CriticalIDs(results),
                          project_duration |-> project_duration]>>
    /\ pc' = "done"
    /\ UNCHANGED <<data, method, start_origin,
                   i, graph, es, ef, ls, lf, project_duration, results>>

Next ==
    \/ BuildRow
    \/ CycleCheck
    \/ ForwardStep
    \/ ProjectDuration
    \/ BackwardStep
    \/ ResultsStart
    \/ StartOriginRaises
    \/ CompileRow
    \/ Summary

(***************************************************************************)
(* Input tables.  A table is a sequence of rows; every cell is text.       *)
(***************************************************************************)
Row(id, d, preds, constr, sd, ed) ==
    [ActivityID |-> id, Duration |-> d, Predecessors |-> preds,
     Constraint |-> constr, StartDate |-> sd, EndDate |-> ed]

A == <<"A">>
B == <<"B">>
C == <<"C">>
D == <<"D">>
E == <<"E">>

Types == {"FS", "SS", "FF", "SF"}
\* a lead, no lag, a lag
Lags == {0 - MaxLag, 0, MaxLag}
Durations == 0..MaxDur

TypeText(t) ==
    CASE t = "FS" -> <<"F", "S">> [] t = "SS" -> <<"S", "S">>
      [] t = "FF" -> <<"F", "F">> [] t = "SF" -> <<"S", "F">>

DigitText(k) ==
    CASE k = 0 -> "0" [] k = 1 -> "1" [] k = 2 -> "2" [] k = 3 -> "3"
      [] k = 4 -> "4" [] k = 5 -> "5" [] k = 6 -> "6" [] k = 7 -> "7"
      [] k = 8 -> "8" [] k = 9 -> "9"

RECURSIVE NatText(_)
NatText(k) ==
    IF k < 10 THEN <<DigitText(k)>> ELSE NatText(k \div 10) \o <<DigitText(k % 10)>>

\* a lag as the grammar writes it: nothing for 0, else a sign and digits
LagText(l) ==
    IF l = 0 THEN <<>>
    ELSE IF l < 0 THEN <<"-">> \o NatText(0 - l) ELSE <<"+">> \o NatText(l)

Token(p, t, l) == p \o <<"[">> \o TypeText(t) \o LagText(l) \o <<"]">>

RECURSIVE Join(_, _)
Join(parts, sep) ==
    IF parts = <<>> THEN <<>>
    ELSE IF Len(parts) = 1 THEN Head(parts)
    ELSE Head(parts) \o <<sep>> \o Join(Tail(parts), sep)

Pad2(k) == IF k < 10 THEN <<"0", DigitText(k)>> ELSE NatText(k)
DateText(d, m, y) == Pad2(d) \o <<"/">> \o Pad2(m) \o <<"/">> \o NatText(y)

\* the row of activity `id` whose incoming relations are `rels`, a sequence
\* of [predecessor, type, lag]: bare ids when every relation is FS with lag
\* 0, constraint tokens otherwise; dates on the rows without relations
RelRow(id, d, rels) ==
    LET ids == [k \in 1..Len(rels) |-> rels[k].predecessor]
        toks == [k \in 1..Len(rels) |->
                    Token(rels[k].predecessor, rels[k].type, rels[k].lag)]
        bare == \A k \in 1..Len(rels) : rels[k].type = "FS" /\ rels[k].lag = 0
    IN  Row(id, d, Join(ids, ","), IF bare THEN <<>> ELSE Join(toks, ";"),
            IF rels = <<>> THEN DateText(1, 4, 2023) ELSE NaN,
            IF rels = <<>> THEN DateText(6, 4, 2023) ELSE NaN)

NoRel == [type |-> "none", lag |-> 0]
RelOptions == {NoRel} \cup [type : Types, lag : Lags]

Rels(p, o) ==
    IF o = NoRel THEN <<>>
    ELSE <<[predecessor |-> p, type |-> o.type, lag |-> o.lag]>>

\* three activities A, B, C with every choice of relation on A->B, A->C,
\* B->C and every choice of durations
GraphTables ==
    {<<RelRow(A, dA, <<>>),
       RelRow(B, dB, Rels(A, oAB)),
       RelRow(C, dC, Rels(A, oAC) \o Rels(B, oBC))>> :
        dA \in Durations, dB \in Durations, dC \in Durations,
        oAB \in RelOptions, oAC \in RelOptions, oBC \in RelOptions}

\* a chain a1 -> a2 -> ... -> an of FS relations with lag 0, rows in chain
\* order or in reverse order; a negative duration is a cell the script
\* accepts as it accepts any number
ChainIds == <<A, B, C, D, E>>
ChainDurations == (0 - 1)..MaxDur

ChainRow(k, d) ==
    RelRow(ChainIds[k], d,
           IF k = 1 THEN <<>>
           ELSE <<[predecessor |-> ChainIds[k - 1], type |-> "FS", lag |-> 0]>>)

Reverse(s) == [k \in 1..Len(s) |-> s[Len(s) + 1 - k]]

ChainTables ==
    UNION {
        LET t(ds) == [k \in 1..n |-> ChainRow(k, ds[k])]
        IN  {t(ds) : ds \in [1..n -> ChainDurations]}
            \cup {Reverse(t(ds)) : ds \in [1..n -> ChainDurations]}
        : n \in 1..MaxChain}

FS0(p) == [predecessor |-> p, type |-> "FS", lag |-> 0]

\* A(5), B(3, FS0 A), C(4, FS0 B), D(2, FS0 B), E(3, FS0 C and D)
DiamondTable ==
    <<RelRow(A, 5, <<>>), RelRow(B, 3, <<FS0(A)>>), RelRow(C, 4, <<FS0(B)>>),
      RelRow(D, 2, <<FS0(B)>>), RelRow(E, 3, <<FS0(C), FS0(D)>>)>>

\* the same with B -> C as FS+15
DiamondLagTable ==
    [DiamondTable EXCEPT ![3] =
        RelRow(C, 4, <<[predecessor |-> B, type |-> "FS", lag |-> 15]>>)]

\* the table get_schedule falls back to; its Constraint cell "FS+15" names
\* no predecessor
T(k) == <<"T", DigitText(k)>>
SampleTable ==
    <<Row(T(1), 5, <<>>, <<>>, DateText(1, 4, 2023), DateText(6, 4, 2023)),
      Row(T(2), 5, T(1), <<>>, DateText(6, 4, 2023), DateText(11, 4, 2023)),
      Row(T(3), 45, T(2), <<>>, DateText(11, 4, 2023), DateText(26, 5, 2023)),
      Row(T(4), 45, T(2), <<"F", "S", "+", "1", "5">>,
          DateText(26, 4, 2023), DateText(10, 6, 2023)),
      Row(T(5), 30, T(4), <<>>, DateText(10, 6, 2023), DateText(10, 7, 2023))>>

\* A -> B -> C -> A
CycleTable ==
    <<RelRow(A, 1, <<[predecessor |-> C, type |-> "SS", lag |-> 1]>>),
      RelRow(B, 2, <<FS0(A)>>),
      RelRow(C, 1, <<[predecessor |-> B, type |-> "FF", lag |-> 0]>>)>>

ScenarioTables ==
    {<<>>, DiamondTable, DiamondLagTable, SampleTable, CycleTable}

\* hand-written cells: whitespace of every kind, empty list items,
\* malformed tokens, lags in the digits of other scripts, missing cells, a
\* predecessor nobody declares, self references
TextIds == {A, B, <<"\t", " ", "A", " ", " ">>}
TextPredCells ==
    {<<>>, NaN, <<" ">>, A, B, <<"A", ",", "B">>,
     <<"", " ", "B", ",", ",", "h", "Z", "\n", "">>}
TextConstraintCells ==
    {<<>>, NaN,
     Token(A, "FS", 5),
     Token(A, "FS", 5) \o <<";", "B", "O", "G", "U", "S", ";">> \o Token(C, "SS", 0 - 2),
     <<"F", "S", "+", "1", "5">>,
     Token(B, "SF", 0 - 1) \o <<"X">>,
     Token(A, "FS", 0) \o <<";", " ">> \o Token(A, "SS", 12),
     <<"A", "[", "F", "S", "+", "۱", "]">>,
     <<"B", "[", "S", "S", "-", "1", "߂", "]", ";", "۱", "[", "F", "S", "]">>,
     <<"B", " ", "[", "F", "F", "]">>,
     <<"\t", "">> \o Token(<<"h", "Z">>, "SS", 1) \o <<"\r", "\n", "">>,
     <<"">> \o Token(B, "FF", 1) \o <<"", ";">> \o Token(<<"_", "1">>, "SF", 0)}

\* as text "05/02/2024" < "10/01/2024", as dates it is the later one
TextDates == {<<NaN, NaN>>, <<DateText(10, 1, 2024), DateText(20, 1, 2024)>>}
TextRows == {Row(id, 2, p, c, sd[1], sd[2]) :
                id \in TextIds, p \in TextPredCells, c \in TextConstraintCells,
                sd \in TextDates}
SecondRows == {Row(id, 1, p, c, DateText(5, 2, 2024), DateText(7, 2, 2024)) :
                id \in {A, B, <<>>}, p \in {<<>>, A, B},
                c \in {<<>>, Token(A, "SS", 0), Token(B, "FF", 0 - 1)}}

TextTables == {<<r>> : r \in TextRows}
                 \cup {<<r1, r2>> : r1 \in TextRows, r2 \in SecondRows}

\* a table and the choice of the radio button; on GraphTables only the row
\* of A carries dates, so one choice is explored there
Inputs ==
    [data : GraphTables, method : {"Calculate by CPM Logic"}]
        \cup [data : ChainTables \cup ScenarioTables \cup TextTables,
              method : Methods]

(***************************************************************************)
(* The script runs top to bottom on the table the editor returned.         *)
(***************************************************************************)
Init ==
    /\ \E input \in Inputs : data = input.data /\ method = input.method
    /\ pc = "build"
    /\ i = 1
    /\ graph = EmptyGraph
    /\ es = Empty
    /\ ef = Empty
    /\ ls = Empty
    /\ lf = Empty
    /\ project_duration = 0
    /\ start_origin = NaT
    /\ results = <<>>
    /\ summary = <<>>

Spec == Init /\ [][Next]_vars

(***************************************************************************)
(* Properties.                                                             *)
(***************************************************************************)
PassesDone == pc \in {"origin", "compile", "done", "raised"}
ForwardDone == pc \in {"backward", "origin", "compile", "done", "raised"}
Acyclic(G) == \A n \in G.nodes : n \notin Descendants(G, n)
EdgeTypes(G) == {G.edges[e].type : e \in DOMAIN G.edges}
EdgeLags(G) == {G.edges[e].lag : e \in DOMAIN G.edges}

\* C1: after the forward and the backward pass every activity of the graph
\* has all four times, and its float from the start side, LS - ES, equals
\* its float from the finish side, LF - EF; the Float of a result row is
\* that value.
Thm_C1_FloatTwoWays ==
    PassesDone =>
        /\ DOMAIN es = graph.nodes /\ DOMAIN ef = graph.nodes
        /\ DOMAIN ls = graph.nodes /\ DOMAIN lf = graph.nodes
        /\ \A n \in graph.nodes : ls[n] - es[n] = lf[n] - ef[n]
        /\ \A k \in 1..Len(results) :
              results[k].Float = lf[results[k].ID] - ef[results[k].ID]

Wit_C1_MixedGraph ==
    /\ pc = "done"
    /\ Cardinality(EdgeTypes(graph)) >= 3
    /\ \E l \in EdgeLags(graph) : l < 0
    /\ \E l \in EdgeLags(graph) : l > 0
    /\ \E n \in graph.nodes : Duration(graph, n) > 0 /\ ls[n] - es[n] # 0

\* C2: on a graph that is one chain a1 -> ... -> an of FS relations with lag
\* 0 over declared activities with non-negative durations, ES of an activity
\* is the sum of the durations of the activities before it, the project
\* duration is the sum of all durations, and every activity has Float 0 and
\* is reported Critical.
Ancestors(G, n) == {m \in G.nodes : n \in Descendants(G, m)}

RECURSIVE SumDurations(_, _)
SumDurations(G, S) ==
    IF S = {} THEN 0
    ELSE LET n == CHOOSE x \in S : TRUE
         IN  G.duration[n] + SumDurations(G, S \ {n})

IsPureChain(G) ==
    /\ G.nodes # {}
    /\ DOMAIN G.duration = G.nodes
    /\ \A n \in G.nodes : G.duration[n] >= 0
    /\ Acyclic(G)
    /\ \A e \in DOMAIN G.edges : G.edges[e] = [type |-> "FS", lag |-> 0]
    /\ \A n \in G.nodes : /\ Cardinality(predecessors(G, n)) <= 1
                          /\ Cardinality(successors(G, n)) <= 1
    /\ Cardinality(DOMAIN G.edges) = Cardinality(G.nodes) - 1

Thm_C2_ChainIsCritical ==
    (PassesDone /\ IsPureChain(graph)) =>
        /\ \A n \in graph.nodes :
              /\ es[n] = SumDurations(graph, Ancestors(graph, n))
              /\ ls[n] - es[n] = 0
        /\ project_duration = SumDurations(graph, graph.nodes)
        /\ \A k \in 1..Len(results) :
              results[k].Float = 0 /\ results[k].Critical
        /\ pc = "done" =>
              /\ summary # <<>>
              /\ Range(summary[1].critical_path) = graph.nodes
              /\ summary[1].project_duration = SumDurations(graph, graph.nodes)

Wit_C2_ChainOfThree ==
    /\ pc = "done"
    /\ IsPureChain(graph)
    /\ Cardinality(graph.nodes) >= 3
    /\ \A n \in graph.nodes : graph.duration[n] > 0
    /\ Len(results) >= 3

\* C3: the forward pass gives a node its ES only after all its predecessors
\* have theirs and never changes an ES or EF afterwards; when it is over,
\* ES[n] is the largest of 0 and the contributions of the incoming edges
\* (FS: EF[pred]+lag, SS: ES[pred]+lag, FF: EF[pred]+lag-d, SF:
\* ES[pred]+lag-d), EF[n] = ES[n] + d, ES[n] >= 0, ES[n] = 0 without
\* incoming edges, and the diamond A(5) B(3) C(4) D(2) E(3) gets ES/EF
\* 0/5, 5/8, 8/12, 8/10, 12/15.
C3Contribution(p, n) ==
    LET t == graph.edges[<<p, n>>].type
        lag == graph.edges[<<p, n>>].lag
        d == Duration(graph, n)
    IN  IF t = "FS" THEN ef[p] + lag
        ELSE IF t = "SS" THEN es[p] + lag
        ELSE IF t = "FF" THEN ef[p] + lag - d
        ELSE es[p] + lag - d

C3Final ==
    ForwardDone =>
        /\ \A n \in graph.nodes :
              /\ \A p \in predecessors(graph, n) : es[n] >= C3Contribution(p, n)
              /\ es[n] >= 0
              /\ \/ es[n] = 0
                 \/ \E p \in predecessors(graph, n) : es[n] = C3Contribution(p, n)
              /\ ef[n] = es[n] + Duration(graph, n)
              /\ predecessors(graph, n) = {} => es[n] = 0
        /\ data = DiamondTable =>
              /\ es = (A :> 0 @@ B :> 5 @@ C :> 8 @@ D :> 8 @@ E :> 12)
              /\ ef = (A :> 5 @@ B :> 8 @@ C :> 12 @@ D :> 10 @@ E :> 15)

C3Order ==
    /\ \A n \in DOMAIN es : n \in DOMAIN es' /\ es'[n] = es[n] /\ ef'[n] = ef[n]
    /\ \A n \in DOMAIN es' \ DOMAIN es : predecessors(graph, n) \subseteq DOMAIN es

Thm_C3_ForwardPass == []C3Final /\ [][C3Order]_vars

Wit_C3_Reconverging ==
    /\ ForwardDone
    /\ \E n \in graph.nodes :
          /\ Cardinality(predecessors(graph, n)) >= 2
          /\ \E p \in predecessors(graph, n) :
                /\ graph.edges[<<p, n>>].type \in {"FF", "SF"}
                /\ graph.edges[<<p, n>>].lag # 0
                /\ Duration(graph, n) > 0
                /\ es[n] = C3Contribution(p, n)
                /\ es[n] > 0

\* C4: the backward pass starts from P = the largest EF, gives a node its LF
\* only after all its successors have theirs and changes no ES or EF; when
\* it is over, LF[n] is the smallest of P and the contributions of the
\* outgoing edges (FS: LS[succ]-lag, SS: LS[succ]-lag, FF: LF[succ]-lag,
\* SF: ES[succ]-lag), LS[n] = LF[n] - d, and LF[n] = P without outgoing
\* edges.
C4Contribution(n, s) ==
    LET t == graph.edges[<<n, s>>].type
        lag == graph.edges[<<n, s>>].lag
    IN  IF t \in {"FS", "SS"} THEN ls[s] - lag
        ELSE IF t = "FF" THEN lf[s] - lag
        ELSE es[s] - lag

C4Final ==
    PassesDone =>
        /\ graph.nodes # {} =>
              /\ \A n \in graph.nodes : ef[n] <= project_duration
              /\ \E n \in graph.nodes : ef[n] = project_duration
        /\ \A n \in graph.nodes :
              /\ lf[n] <= project_duration
              /\ \A s \in successors(graph, n) : lf[n] <= C4Contribution(n, s)
              /\ \/ lf[n] = project_duration
                 \/ \E s \in successors(graph, n) : lf[n] = C4Contribution(n, s)
              /\ ls[n] = lf[n] - Duration(graph, n)
              /\ successors(graph, n) = {} => lf[n] = project_duration

C4Order ==
    /\ pc = "backward" => es' = es /\ ef' = ef
    /\ \A n \in DOMAIN ls : n \in DOMAIN ls' /\ ls'[n] = ls[n] /\ lf'[n] = lf[n]
    /\ \A n \in DOMAIN ls' \ DOMAIN ls : successors(graph, n) \subseteq DOMAIN ls

Thm_C4_BackwardPass == []C4Final /\ [][C4Order]_vars

Wit_C4_Diverging ==
    /\ PassesDone
    /\ \E n \in graph.nodes :
          /\ Cardinality(successors(graph, n)) >= 2
          /\ \E s \in successors(graph, n) :
                /\ graph.edges[<<n, s>>].type = "SF"
                /\ lf[n] = C4Contribution(n, s)
                /\ lf[n] < project_duration

\* C5: the passes run only on an acyclic graph.  When the built graph has a
\* directed cycle (Kahn's elimination leaves nodes over; a self-loop and a
\* two-node cycle included) the script stops at the cycle check with no
\* ES/EF/LS/LF, no result row and no summary; when it has none the script
\* goes on.
RECURSIVE KahnResidue(_, _)
KahnResidue(G, S) ==
    LET free == {n \in S : predecessors(G, n) \cap S = {}}
    IN  IF free = {} THEN S ELSE KahnResidue(G, S \ free)

KahnCyclic(G) == KahnResidue(G, G.nodes) # {}

Thm_C5_CycleStops ==
    /\ pc = "stopped" =>
          /\ i > Len(data)
          /\ KahnCyclic(graph)
    /\ pc \in {"build", "stopped"} =>
          /\ es = Empty /\ ef = Empty /\ ls = Empty /\ lf = Empty
          /\ start_origin = NaT /\ results = <<>> /\ summary = <<>>
    /\ pc \in {"forward", "backward", "origin", "compile", "done", "raised"} => ~KahnCyclic(graph)

Wit_C5_SelfLoopStopped ==
    /\ pc = "stopped"
    /\ \E n \in graph.nodes : <<n, n>> \in DOMAIN graph.edges
    /\ \A n \in graph.nodes : \A m \in graph.nodes \ {n} :
          <<n, m>> \notin DOMAIN graph.edges

\* C6: every edge of the graph the passes run on joins two activities that
\* an input record declares.
Declared == {Strip(data[k].ActivityID) : k \in 1..Len(data)} \ {<<>>}

CE_C6_EdgesNameDeclared ==
    pc \in {"forward", "backward", "origin", "compile", "done", "raised"} =>
        \A e \in DOMAIN graph.edges : e[1] \in Declared /\ e[2] \in Declared

\* C7: the critical-path sequence of the summary holds exactly the declared
\* activities with Float 0, in ascending order of ES, equal ES in
\* lexicographic order of the id.
\* a record repeated in the table may repeat in the sequence
NotAfter(m, n) == es[m] < es[n] \/ (es[m] = es[n] /\ (m = n \/ LexLess(m, n)))

\* the table is well formed: every record declares its own activity with a
\* non-negative duration, and every edge joins declared activities
WellFormed ==
    /\ \A j \in 1..Len(data) : \A k \in 1..Len(data) :
          j # k => Strip(data[j].ActivityID) # Strip(data[k].ActivityID)
    /\ \A k \in 1..Len(data) :
          Strip(data[k].ActivityID) # <<>> /\ data[k].Duration >= 0
    /\ \A e \in DOMAIN graph.edges : e[1] \in Declared /\ e[2] \in Declared

\* (stated for well-formed tables, where the sequence has no repetition)
CE_C7_CriticalPathOrder ==
    (pc = "done" /\ summary # <<>> /\ WellFormed) =>
        LET cp == summary[1].critical_path
        IN  /\ Range(cp) = {n \in Declared : ls[n] - es[n] = 0}
            /\ \A k \in 1..(Len(cp) - 1) : NotAfter(cp[k], cp[k + 1])

\* C8: whatever topological order the passes visit the nodes in, ES, EF, LS,
\* LF, the project duration and the result rows are those of one fixed
\* order; a run that ends at the start-origin line does so on a table that
\* is mixed there, whatever the order, and leaves no row.
RECURSIVE FixedForward(_, _, _)
FixedForward(G, esm, efm) ==
    IF DOMAIN esm = G.nodes THEN [es |-> esm, ef |-> efm]
    ELSE LET n == CHOOSE x \in G.nodes \ DOMAIN esm :
                      predecessors(G, x) \subseteq DOMAIN esm
             e == ForwardES(G, n, esm, efm)
         IN  FixedForward(G, Put(esm, n, e), Put(efm, n, EarlyFinish(G, n, e)))

RECURSIVE FixedBackward(_, _, _, _, _)
FixedBackward(G, P, esm, lsm, lfm) ==
    IF DOMAIN lsm = G.nodes THEN [ls |-> lsm, lf |-> lfm]
    ELSE LET n == CHOOSE x \in G.nodes \ DOMAIN lsm :
                      successors(G, x) \subseteq DOMAIN lsm
             l == BackwardLF(G, n, P, esm, lsm, lfm)
         IN  FixedBackward(G, P, esm, Put(lsm, n, LateStart(G, n, l)), Put(lfm, n, l))

RECURSIVE FixedRows(_, _, _, _)
FixedRows(k, fw, bw, res) ==
    IF k > Len(data) THEN res
    ELSE FixedRows(k + 1, fw, bw,
                   CompileOne(res, graph, data[k], method, StartOrigin(data),
                              fw.es, fw.ef, bw.ls))

Thm_C8_OrderIndependent ==
    LET fw == FixedForward(graph, Empty, Empty)
        P == ProjectEnd(fw.ef)
        bw == FixedBackward(graph, P, fw.es, Empty, Empty)
    IN  /\ ForwardDone => es = fw.es /\ ef = fw.ef /\ project_duration = P
        /\ PassesDone =>
              /\ ls = bw.ls /\ lf = bw.lf
              /\ \A k \in 1..Len(results) :
                    LET r == results[k]
                    IN  /\ r.Float = bw.ls[r.ID] - fw.es[r.ID]
                        /\ r.Critical = (bw.ls[r.ID] = fw.es[r.ID])
        /\ pc = "done" =>
              /\ results = FixedRows(1, fw, bw, <<>>)
              /\ summary # <<>> => summary[1].project_duration = P
        /\ pc = "raised" =>
              MixedOrigin(data) /\ results = <<>> /\ summary = <<>>

Wit_C8_SeveralOrders ==
    /\ pc = "done"
    /\ Cardinality(graph.nodes) >= 3
    /\ DOMAIN graph.edges # {}
    /\ \E m \in graph.nodes : \E n \in graph.nodes \ {m} :
          /\ m \notin Descendants(graph, n)
          /\ n \notin Descendants(graph, m)
          /\ es[m] # es[n]
          /\ ls[m] # ls[n]

\* C9: with non-negative durations no activity ends with a negative Float,
\* and a non-empty schedule has an activity with Float 0 (stated for
\* well-formed tables).
CE_C9_FloatNonNegative ==
    (PassesDone /\ WellFormed) =>
        /\ \A n \in graph.nodes : ls[n] - es[n] >= 0
        /\ graph.nodes # {} => \E n \in graph.nodes : ls[n] - es[n] = 0

\* the change of the edges that C10 describes for one record: none when the
\* Predecessors cell is empty or missing, whatever the Constraint cell
\* parses to; otherwise the parsed relations when there is at least one (per
\* predecessor the last one, bare ids ignored), and otherwise FS with lag 0
\* from each listed id.  Every other edge stays.
C10Edges(row, old, new) ==
    LET aid == Strip(row.ActivityID)
        rels == parse_logic_constraints(row.Constraint)
        listed == Range(NonEmptyStripped(Split(row.Predecessors, ",")))
        touched == {e \in DOMAIN new : e \notin DOMAIN old \/ new[e] # old[e]}
        last(p) == rels[Max({k \in 1..Len(rels) : rels[k].predecessor = p})]
    IN  /\ DOMAIN old \subseteq DOMAIN new
        /\ IF row.Predecessors = NaN \/ row.Predecessors = <<>>
           THEN new = old
           ELSE IF rels # <<>>
           THEN /\ touched \subseteq {<<rels[k].predecessor, aid>> : k \in 1..Len(rels)}
                /\ \A k \in 1..Len(rels) :
                      LET p == rels[k].predecessor
                      IN  /\ <<p, aid>> \in DOMAIN new
                          /\ new[<<p, aid>>] =
                                 [type |-> last(p).type, lag |-> last(p).lag]
           ELSE /\ touched \subseteq {<<p, aid>> : p \in listed}
                /\ \A p \in listed :
                      /\ <<p, aid>> \in DOMAIN new
                      /\ new[<<p, aid>>] = [type |-> "FS", lag |-> 0]

\* C10 as stated: every record changes the edges by its Predecessors cell
\* first, as C10Edges says.
C10Stated ==
    (pc = "build" /\ i <= Len(data)) =>
        C10Edges(data[i], graph.edges, graph'.edges)

CE_C10_EveryRecord == [][C10Stated]_vars

\* C10 amended: a record whose Activity ID is not blank changes the edges by
\* its Predecessors cell first, as C10Edges says; a record whose Activity ID
\* is blank changes nothing, whatever its Predecessors and Constraint cells.
C10Step ==
    (pc = "build" /\ i <= Len(data)) =>
        IF Strip(data[i].ActivityID) = <<>>
        THEN graph' = graph
        ELSE C10Edges(data[i], graph.edges, graph'.edges)

Thm_C10_PredecessorsCellFirst == [][C10Step]_vars

Wit_C10_ConstraintWithoutPredecessors ==
    /\ pc = "build"
    /\ i = 2
    /\ Strip(data[1].ActivityID) # <<>>
    /\ data[1].Predecessors = <<>>
    /\ parse_logic_constraints(data[1].Constraint) # <<>>
    /\ graph.nodes = {Strip(data[1].ActivityID)}
    /\ DOMAIN graph.edges = {}

====
